---- MODULE Spec2Model ----
(***************************************************************************)
(* Model of notebooks/07-nyc-taxi-futures.ipynb: a caller (the notebook's  *)
(* cells, run top to bottom) submits read_row_group, len, f and sum to a   *)
(* dask.distributed Client and gathers values with Future.result().        *)
(*                                                                         *)
(* A task's key is its index in `tasks`.  The workers are the StartTask /  *)
(* FinishTask actions: any runnable task may start at any moment and any   *)
(* running task may finish at any moment, so every assignment of tasks to  *)
(* workers and every completion order is a behaviour of the model.         *)
(* A table is the sequence of its passenger_count values, one per row.     *)
(*                                                                         *)
(* Spec        the notebook's cells and the cluster                        *)
(* SpecLoader  one call of read_row_group, statement by statement          *)
(* SpecMean    the average exercise: per-chunk (sum, count), then combined *)
(***************************************************************************)
EXTENDS Integers, Sequences, FiniteSets, TLC

\* ------------------------------------------------------------------ bounds
\* row groups of the dataset
NumRowGroups == 2
\* rows of the whole dataset (Spec, SpecLoader)
MaxRows == 2
\* rows of the whole dataset (SpecMean)
MaxMeanRows == 3
\* largest passenger_count of a row
MaxPassengers == 1
\* result() cells the user executes a second time
MaxReRuns == 3

VARIABLES
    rowGroups,    \* pf.row_groups: the dataset's partitions, each a table
    tasks,        \* the scheduler's tasks, by key
    pc,           \* the cell the caller runs next
    future,       \* key bound to `future` (0: unbound)
    len_future,   \* key bound to `len_future`
    futures,      \* keys bound to `futures`
    counts,       \* keys bound to `counts`
    total,        \* key bound to `total`
    local,        \* per key: the value held in the caller's process
    calls,        \* history of result() calls: key and what the call gave
    reruns,       \* result() cells the user has executed again
    rrg,          \* one call of read_row_group (SpecLoader)
    mean          \* the average exercise (SpecMean)

vars == <<rowGroups, tasks, pc, future, len_future, futures, counts, total,
          local, calls, reruns, rrg, mean>>

\* ------------------------------------------------------------------ values
Tables(maxRows) == UNION {[1..n -> 0..MaxPassengers] : n \in 0..maxRows}

RECURSIVE Concat(_)
\* pd.concat: the tables' rows, in order
Concat(ts) == IF ts = <<>> THEN <<>> ELSE Head(ts) \o Concat(Tail(ts))

\* The datasets of n row groups holding at most maxRows rows in all.
Datasets(n, maxRows) ==
    {d \in [1..n -> Tables(maxRows)] : Len(Concat(d)) <= maxRows}

None == [tag |-> "none", rows |-> <<>>, num |-> 0]
TableVal(rows) == [tag |-> "table", rows |-> rows, num |-> 0]
IntVal(n) == [tag |-> "int", rows |-> <<>>, num |-> n]
\* an exception raised by the task with key k
ErrorVal(k) == [tag |-> "error", rows |-> <<>>, num |-> k]

\* ------------------------------------------------------- the task functions
RECURSIVE SeriesSum(_)
\* pandas Series.sum() of the passenger_count column
SeriesSum(rows) ==
    IF rows = <<>> THEN 0 ELSE Head(rows) + SeriesSum(Tail(rows))

RECURSIVE PySumFrom(_, _)
PySumFrom(acc, xs) ==
    IF xs = <<>> THEN acc ELSE PySumFrom(acc + Head(xs), Tail(xs))

\* mutant: a sum that skips the first element
PySumSkipsFirst(xs) == IF xs = <<>> THEN 0 ELSE PySumFrom(0, Tail(xs))

\* the builtin sum(iterable): a left fold from 0
PySum(xs) == PySumFrom(0, xs)

\* mutant: counts the rows instead of summing the column
fCountsRows(df) == Len(df)

\* def f(df): return df.passenger_count.sum()
f(df) == SeriesSum(df)

\* the builtin len(df): the dataframe's number of rows
PyLen(df) == Len(df)

\* read_row_group(rg) with the notebook's columns: the dataframe of row group rg
read_row_group(rg) == rowGroups[rg]

\* What running a task's function on its resolved arguments gives.
Apply(fn, rg, argvals) ==
    CASE fn = "read_row_group" -> TableVal(read_row_group(rg))
      [] fn = "len" -> IntVal(PyLen(argvals[1].rows))
      [] fn = "f" -> IntVal(f(argvals[1].rows))
      [] fn = "sum" -> IntVal(PySum([i \in 1..Len(argvals) |-> argvals[i].num]))

\* The functions whose remote run may raise: read_row_group reads storage
\* through gcs.open, f looks a column up in the dataframe it is given.
CanRaise(fn) == fn \in {"read_row_group", "f"}

\* --------------------------------------------------------------- scheduler
Keys == 1..Len(tasks)

\* mutant: an erred dependency counts as a settled one
DepStateSettled(ts, deps) ==
    IF \A i \in 1..Len(deps) : ts[deps[i]].status \in {"finished", "erred"}
    THEN "ready" ELSE "waiting"

\* Where a task with these dependencies stands: "erred" when one of them
\* erred, "ready" when all of them are finished, "waiting" otherwise.
DepState(ts, deps) ==
    IF \E i \in 1..Len(deps) : ts[deps[i]].status = "erred" THEN "erred"
    ELSE IF \A i \in 1..Len(deps) : ts[deps[i]].status = "finished" THEN "ready"
    ELSE "waiting"

\* The exception of the first erred dependency.
ErredDep(ts, deps) ==
    LET bad == {i \in 1..Len(deps) : ts[deps[i]].status = "erred"}
    IN ts[deps[CHOOSE i \in bad : \A j \in bad : i <= j]].value

\* client.submit(fn, *args): a new Future.  The function is not run here; a
\* Future that depends on an erred Future is itself erred.
NewTask(ts, fn, rg, deps) ==
    IF DepState(ts, deps) = "erred"
    THEN [fn |-> fn, rg |-> rg, deps |-> deps, status |-> "erred",
          value |-> ErredDep(ts, deps), runs |-> 0]
    ELSE [fn |-> fn, rg |-> rg, deps |-> deps, status |-> "pending",
          value |-> None, runs |-> 0]

\* mutant: a task starts without waiting for its arguments
CanStartAtOnce(k) == tasks[k].status = "pending"

\* mutant: a finished task is run again
CanStartAgain(k) ==
    /\ tasks[k].status \in {"pending", "finished"}
    /\ DepState(tasks, tasks[k].deps) = "ready"

\* A task starts only once every Future among its arguments is finished.
CanStart(k) ==
    /\ tasks[k].status = "pending"
    /\ DepState(tasks, tasks[k].deps) = "ready"

RECURSIVE Propagate(_, _)
\* Dependents of erred tasks become erred, with the same exception.  Keys
\* grow with submission, so one pass in key order reaches every dependent.
Propagate(ts, k) ==
    IF k > Len(ts) THEN ts
    ELSE IF ts[k].status = "pending" /\ DepState(ts, ts[k].deps) = "erred"
    THEN Propagate([ts EXCEPT ![k].status = "erred",
                              ![k].value = ErredDep(ts, ts[k].deps)], k + 1)
    ELSE Propagate(ts, k + 1)

\* A worker starts running a task.
StartTask(k) ==
    /\ CanStart(k)
    /\ tasks' = [tasks EXCEPT ![k].status = "running", ![k].runs = @ + 1]
    /\ UNCHANGED <<rowGroups, pc, future, len_future, futures, counts, total,
                   local, calls, reruns, rrg, mean>>

\* The worker's run of the task ends: its value stays in the worker's memory,
\* or the function raised.
FinishTask(k) ==
    /\ tasks[k].status = "running"
    /\ \/ tasks' = [tasks EXCEPT
                      ![k].status = "finished",
                      ![k].value = Apply(tasks[k].fn, tasks[k].rg,
                                         [i \in 1..Len(tasks[k].deps) |->
                                            tasks[tasks[k].deps[i]].value])]
       \/ /\ CanRaise(tasks[k].fn)
          /\ tasks' = Propagate([tasks EXCEPT ![k].status = "erred",
                                              ![k].value = ErrorVal(k)], 1)
    /\ UNCHANGED <<rowGroups, pc, future, len_future, futures, counts, total,
                   local, calls, reruns, rrg, mean>>

\* ------------------------------------------------------------------ caller
\* mutant: result() of an erred Future returns None instead of raising
ResultOutcomeSwallows(k) ==
    IF tasks[k].status = "erred" THEN None ELSE tasks[k].value

\* What Future.result() gives once the task is settled: the value, gathered
\* from the worker, or the remote exception raised again.
ResultOutcome(k) == tasks[k].value

\* Future.result(): wait for the task, communicate its value, return it.
\* A raised exception ends the cell; the user goes on with the next cell.
Result(k) ==
    /\ tasks[k].status \in {"finished", "erred"}
    /\ calls' = Append(calls, [key |-> k, val |-> ResultOutcome(k)])
    /\ local' = IF ResultOutcome(k).tag = "error" THEN local
                ELSE [local EXCEPT ![k] = ResultOutcome(k)]

\* future = client.submit(read_row_group, pf.row_groups[0])
SubmitFuture ==
    /\ pc = "submit_future"
    /\ tasks' = Append(tasks, NewTask(tasks, "read_row_group", 1, <<>>))
    /\ local' = Append(local, None)
    /\ future' = Len(tasks) + 1
    /\ pc' = "submit_len"
    /\ UNCHANGED <<rowGroups, len_future, futures, counts, total, calls,
                   reruns, rrg, mean>>

\* mutant: len(future.result()) in the caller: waits for future and gathers it
SubmitLenGathers ==
    /\ pc = "submit_len"
    /\ tasks[future].status = "finished"
    /\ tasks' = Append(tasks, NewTask(tasks, "len", 0, <<future>>))
    /\ local' = Append([local EXCEPT ![future] = tasks[future].value], None)
    /\ len_future' = Len(tasks) + 1
    /\ pc' = "len_result"
    /\ UNCHANGED <<rowGroups, future, futures, counts, total, calls, reruns,
                   rrg, mean>>

\* len_future = client.submit(len, future)
SubmitLen ==
    /\ pc = "submit_len"
    /\ tasks' = Append(tasks, NewTask(tasks, "len", 0, <<future>>))
    /\ local' = Append(local, None)
    /\ len_future' = Len(tasks) + 1
    /\ pc' = "len_result"
    /\ UNCHANGED <<rowGroups, future, futures, counts, total, calls, reruns,
                   rrg, mean>>

\* len_future.result()
LenResult ==
    /\ pc = "len_result"
    /\ Result(len_future)
    /\ pc' = "future_result"
    /\ UNCHANGED <<rowGroups, tasks, future, len_future, futures, counts,
                   total, reruns, rrg, mean>>

\* local_df = future.result()
FutureResult ==
    /\ pc = "future_result"
    /\ Result(future)
    /\ pc' = "submit_futures"
    /\ UNCHANGED <<rowGroups, tasks, future, len_future, futures, counts,
                   total, reruns, rrg, mean>>

RECURSIVE MapTasks(_, _, _, _)
\* client.map(fn, args): submit element-wise, in input order.  args[i] is a
\* row group (byRg) or the key of a Future.
MapTasks(ts, fn, args, byRg) ==
    IF args = <<>> THEN ts
    ELSE LET t == IF byRg THEN NewTask(ts, fn, Head(args), <<>>)
                  ELSE NewTask(ts, fn, 0, <<Head(args)>>)
         IN MapTasks(Append(ts, t), fn, Tail(args), byRg)

\* mutant: the Futures in reverse order
MapKeysReversed(first, n) == [i \in 1..n |-> first + n - i]

\* The Futures client.map returns: one per input, in input order.
MapKeys(first, n) == [i \in 1..n |-> first + i - 1]

\* futures = client.map(read_row_group, pf.row_groups)
SubmitFutures ==
    /\ pc = "submit_futures"
    /\ tasks' = MapTasks(tasks, "read_row_group",
                         [i \in 1..Len(rowGroups) |-> i], TRUE)
    /\ futures' = MapKeys(Len(tasks) + 1, Len(rowGroups))
    /\ local' = local \o [i \in 1..Len(rowGroups) |-> None]
    /\ pc' = "map_counts"
    /\ UNCHANGED <<rowGroups, future, len_future, counts, total, calls,
                   reruns, rrg, mean>>

\* counts = client.map(f, futures)
MapCounts ==
    /\ pc = "map_counts"
    /\ tasks' = MapTasks(tasks, "f", futures, FALSE)
    /\ counts' = MapKeys(Len(tasks) + 1, Len(futures))
    /\ local' = local \o [i \in 1..Len(futures) |-> None]
    /\ pc' = "submit_total"
    /\ UNCHANGED <<rowGroups, future, len_future, futures, total, calls,
                   reruns, rrg, mean>>

\* total = client.submit(sum, counts)
SubmitTotal ==
    /\ pc = "submit_total"
    /\ tasks' = Append(tasks, NewTask(tasks, "sum", 0, counts))
    /\ local' = Append(local, None)
    /\ total' = Len(tasks) + 1
    /\ pc' = "total_result"
    /\ UNCHANGED <<rowGroups, future, len_future, futures, counts, calls,
                   reruns, rrg, mean>>

\* total.result()
TotalResult ==
    /\ pc = "total_result"
    /\ Result(total)
    /\ pc' = "done"
    /\ UNCHANGED <<rowGroups, tasks, future, len_future, futures, counts,
                   total, reruns, rrg, mean>>

\* After the last cell the user goes through the result() cells again, top
\* to bottom: len_future.result(), future.result(), total.result().
ReRunResult ==
    /\ pc = "done"
    /\ reruns < MaxReRuns
    /\ Result(<<len_future, future, total>>[(reruns % 3) + 1])
    /\ reruns' = reruns + 1
    /\ UNCHANGED <<rowGroups, tasks, pc, future, len_future, futures, counts,
                   total, rrg, mean>>

\* --------------------------------------------------------- read_row_group
\* The notebook's columns and the dataset's schema draw their names here.
ColumnNames == {"passenger_count", "fare_amount", "tip_amount"}

RrgIdle == [pc |-> "idle", rg |-> 0, columns |-> {}, schema |-> {},
            allocated |-> {}, assigned |-> {}, ioReads |-> 0, err |-> "none"]

\* fn = pf.row_group_filename(rg); categories, index, cs; dt = pf.dtypes;
\* schema = pf.schema: attributes of the ParquetFile, already in memory.
RrgSetup ==
    /\ rrg.pc = "setup"
    /\ rrg' = [rrg EXCEPT !.pc = "pre_allocate"]
    /\ UNCHANGED <<rowGroups, tasks, pc, future, len_future, futures, counts,
                   total, local, calls, reruns, mean>>

\* df, views = _pre_allocate(rg.num_rows, columns, categories, index, cs, dt)
\* read_row_group compares columns with the schema nowhere.  What fastparquet
\* does with a column that dt lacks is the installed library's: it allocates
\* the column with a default dtype, or the lookup raises.
RrgPreAllocate ==
    /\ rrg.pc = "pre_allocate"
    /\ \/ rrg' = [rrg EXCEPT !.pc = "read_file", !.allocated = rrg.columns]
       \/ /\ ~(rrg.columns \subseteq rrg.schema)
          /\ rrg' = [rrg EXCEPT !.pc = "raised", !.err = "KeyError"]
    /\ UNCHANGED <<rowGroups, tasks, pc, future, len_future, futures, counts,
                   total, local, calls, reruns, mean>>

\* read_row_group_file(fn, rg, columns, categories, schema, cs,
\*                     open=gcs.open, assign=views)
\* opens the file in storage and assigns the row group's column chunks whose
\* names are in columns; gcs.open may fail.
RrgReadFile ==
    /\ rrg.pc = "read_file"
    /\ \/ rrg' = [rrg EXCEPT !.pc = "return", !.ioReads = @ + 1,
                             !.assigned = rrg.columns \cap rrg.schema]
       \/ rrg' = [rrg EXCEPT !.pc = "raised", !.ioReads = @ + 1,
                             !.err = "SourceUnavailable"]
    /\ UNCHANGED <<rowGroups, tasks, pc, future, len_future, futures, counts,
                   total, local, calls, reruns, mean>>

\* return df
RrgReturn ==
    /\ rrg.pc = "return"
    /\ rrg' = [rrg EXCEPT !.pc = "returned"]
    /\ UNCHANGED <<rowGroups, tasks, pc, future, len_future, futures, counts,
                   total, local, calls, reruns, mean>>

\* -------------------------------------------------- the average exercise
NoPair == [sum |-> 0, count |-> 0, done |-> FALSE]

MeanIdle == [pc |-> "idle", partials |-> <<>>, combined |-> NoPair]

\* One chunk's (sum, count) pair: f and len of the chunk's dataframe.
MeanChunk(i) ==
    /\ mean.pc = "chunks"
    /\ ~mean.partials[i].done
    /\ mean' = [mean EXCEPT !.partials[i] =
                  [sum |-> f(read_row_group(i)),
                   count |-> PyLen(read_row_group(i)), done |-> TRUE]]
    /\ UNCHANGED <<rowGroups, tasks, pc, future, len_future, futures, counts,
                   total, local, calls, reruns, rrg>>

\* The pairs combined: the sum of the sums and the sum of the counts.
MeanCombine ==
    /\ mean.pc = "chunks"
    /\ \A i \in 1..Len(mean.partials) : mean.partials[i].done
    /\ mean' = [mean EXCEPT
                  !.pc = "combined",
                  !.combined =
                     [sum |-> PySum([i \in 1..Len(mean.partials) |->
                                       mean.partials[i].sum]),
                      count |-> PySum([i \in 1..Len(mean.partials) |->
                                         mean.partials[i].count]),
                      done |-> TRUE]]
    /\ UNCHANGED <<rowGroups, tasks, pc, future, len_future, futures, counts,
                   total, local, calls, reruns, rrg>>

\* ---------------------------------------------------------- specifications
CallerInit ==
    /\ tasks = <<>>
    /\ future = 0
    /\ len_future = 0
    /\ futures = <<>>
    /\ counts = <<>>
    /\ total = 0
    /\ local = <<>>
    /\ calls = <<>>
    /\ reruns = 0

Init ==
    /\ rowGroups \in Datasets(NumRowGroups, MaxRows)
    /\ CallerInit
    /\ pc = "submit_future"
    /\ rrg = RrgIdle
    /\ mean = MeanIdle

Next ==
    \/ SubmitFuture
    \/ SubmitLen
    \/ LenResult
    \/ FutureResult
    \/ SubmitFutures
    \/ MapCounts
    \/ SubmitTotal
    \/ TotalResult
    \/ ReRunResult
    \/ \E k \in Keys : StartTask(k)
    \/ \E k \in Keys : FinishTask(k)

Spec == Init /\ [][Next]_vars

InitLoader ==
    /\ rowGroups \in Datasets(NumRowGroups, MaxRows)
    /\ CallerInit
    /\ pc = "idle"
    /\ mean = MeanIdle
    /\ \E g \in 1..NumRowGroups, cols \in SUBSET ColumnNames,
          sch \in SUBSET ColumnNames :
          /\ cols # {}
          /\ rrg = [RrgIdle EXCEPT !.pc = "setup", !.rg = g,
                                   !.columns = cols, !.schema = sch]

NextLoader ==
    \/ RrgSetup
    \/ RrgPreAllocate
    \/ RrgReadFile
    \/ RrgReturn

SpecLoader == InitLoader /\ [][NextLoader]_vars

InitMean ==
    /\ rowGroups \in Datasets(NumRowGroups, MaxMeanRows)
    /\ CallerInit
    /\ pc = "idle"
    /\ rrg = RrgIdle
    /\ mean = [MeanIdle EXCEPT !.pc = "chunks",
                               !.partials = [i \in 1..NumRowGroups |-> NoPair]]

NextMean ==
    \/ \E i \in 1..NumRowGroups : MeanChunk(i)
    \/ MeanCombine

SpecMean == InitMean /\ [][NextMean]_vars

\* ------------------------------------------------------------------ claims
TotalRows == Len(Concat(rowGroups))
TotalSum == SeriesSum(Concat(rowGroups))

\* The partition tasks (loaders and reducers) that erred.
ErredPartitionTasks ==
    {futures[i] : i \in {j \in 1..Len(futures) : tasks[futures[j]].status = "erred"}}
    \cup {counts[i] : i \in {j \in 1..Len(counts) : tasks[counts[j]].status = "erred"}}

\* C1: every total.result() that returns gives the sum of passenger_count
\* over all rows of all row groups, whatever order the loader and reducer
\* tasks ran and finished in.
C1_TotalIsSumOfAllRows ==
    \A i \in 1..Len(calls) :
        (calls[i].key = total /\ calls[i].val.tag # "error")
            => calls[i].val = IntVal(TotalSum)

\* total.result() returned a nonzero total of a dataset whose row groups all
\* hold rows.
C1_Witness ==
    /\ \A g \in 1..Len(rowGroups) : rowGroups[g] # <<>>
    /\ \E i \in 1..Len(calls) :
          calls[i].key = total /\ calls[i].val.tag = "int" /\ calls[i].val.num > 0

\* C2: a task that has started has every Future among its arguments finished:
\* no dependent task runs while a dependency is pending or running.
C2_StartsAfterDependencies ==
    \A k \in Keys :
        (tasks[k].runs > 0 \/ tasks[k].status \in {"running", "finished"})
            => \A i \in 1..Len(tasks[k].deps) :
                   tasks[tasks[k].deps[i]].status = "finished"

\* sum is running on the counts, all of them finished.
C2_Witness ==
    /\ total # 0
    /\ Len(counts) >= 2
    /\ tasks[total].status = "running"

\* C3: client.map(f, futures) returns as many Futures as it was given, and
\* the i-th resolves to f of the i-th input, whatever order they finish in.
C3_MapKeepsPositions ==
    /\ pc \in {"submit_total", "total_result", "done"}
          => Len(counts) = Len(futures)
    /\ \A i \in 1..Len(counts) :
          tasks[counts[i]].status = "finished"
              => /\ tasks[futures[i]].status = "finished"
                 /\ tasks[counts[i]].value =
                        IntVal(f(tasks[futures[i]].value.rows))

\* The second Future of counts finished before the first, with another value.
C3_Witness ==
    /\ Len(counts) >= 2
    /\ tasks[counts[2]].status = "finished"
    /\ tasks[counts[1]].status = "running"
    /\ f(rowGroups[1]) # f(rowGroups[2])

\* C4: an error of a submitted function reaches the caller at result() only:
\* every submit and map has bound its Futures, erred or not, and every
\* result() on an erred Future raised the remote error, never returned.
C4_ErrorsSurfaceAtResult ==
    /\ pc # "submit_future" => future \in Keys
    /\ pc \in {"total_result", "done"}
          => /\ total \in Keys
             /\ Len(futures) = Len(rowGroups)
             /\ Len(counts) = Len(rowGroups)
    /\ \A i \in 1..Len(calls) :
          tasks[calls[i].key].status = "erred"
              => /\ calls[i].val.tag = "error"
                 /\ calls[i].val = tasks[calls[i].key].value
                 /\ tasks[calls[i].val.num].value = ErrorVal(calls[i].val.num)

\* read_row_group raised on a worker; future.result() raised it twice.
C4_Witness ==
    \E i, j \in 1..Len(calls) :
        /\ i < j
        /\ calls[i].key = future
        /\ calls[j].key = future
        /\ calls[i].val = ErrorVal(future)
        /\ calls[j].val = ErrorVal(future)

\* C5: no task's function runs more than once, and the result() calls on
\* one Future all give the same value.
C5_RunsOnceSameValue ==
    /\ \A k \in Keys : tasks[k].runs <= 1
    /\ \A i, j \in 1..Len(calls) :
          calls[i].key = calls[j].key => calls[i].val = calls[j].val

\* future was consumed by len and by two result() calls that returned.
C5_Witness ==
    /\ len_future # 0
    /\ tasks[len_future].status = "finished"
    /\ tasks[future].runs = 1
    /\ \E i, j \in 1..Len(calls) :
          /\ i < j
          /\ calls[i].key = future
          /\ calls[j].key = future
          /\ calls[i].val.tag = "table"
          /\ calls[i].val.rows # <<>>

\* C6: a value is in the caller's process only for a Future whose result()
\* returned it; submit and map never wait.
C6_OnlyResultBringsData ==
    /\ Len(local) = Len(tasks)
    /\ \A k \in 1..Len(local) :
          local[k] # None
              => \E i \in 1..Len(calls) :
                     calls[i].key = k /\ calls[i].val = local[k]
    /\ pc = "submit_future" => ENABLED SubmitFuture
    /\ pc = "submit_len" => ENABLED SubmitLen
    /\ pc = "submit_futures" => ENABLED SubmitFutures
    /\ pc = "map_counts" => ENABLED MapCounts
    /\ pc = "submit_total" => ENABLED SubmitTotal

\* len ran on the worker's dataframe and its result was gathered, while the
\* dataframe itself is still only on the worker.
C6_Witness ==
    /\ pc = "future_result"
    /\ tasks[future].value.tag = "table"
    /\ tasks[future].value.rows # <<>>
    /\ local[future] = None
    /\ local[len_future] = IntVal(Len(tasks[future].value.rows))

\* C7 (as claimed): with a requested column absent from the schema,
\* read_row_group reads nothing from storage and returns no dataframe.
C7_NoReadOnAbsentColumn ==
    ~(rrg.columns \subseteq rrg.schema)
        => rrg.ioReads = 0 /\ rrg.pc \notin {"return", "returned"}

RECURSIVE FracSum(_)
\* The sum of the fractions sum/count of the pairs, as [n, d].
FracSum(ps) ==
    IF ps = <<>> THEN [n |-> 0, d |-> 1]
    ELSE LET r == FracSum(Tail(ps))
         IN [n |-> Head(ps).sum * r.d + r.n * Head(ps).count,
             d |-> Head(ps).count * r.d]

\* C8: the combined sum over the combined count is the mean of the whole
\* dataset: combined_sum * total_rows = total_sum * combined_count, and the
\* combined count is zero only for a dataset without rows.
C8_WeightedMeanIsGlobalMean ==
    mean.combined.done
        => /\ mean.combined.sum * TotalRows = TotalSum * mean.combined.count
           /\ (mean.combined.count = 0) <=> (TotalRows = 0)

\* Chunks of different sizes, none empty, whose unweighted mean of means
\* differs from the mean of the whole dataset.
C8_Witness ==
    /\ mean.combined.done
    /\ \A i \in 1..Len(mean.partials) : mean.partials[i].count > 0
    /\ \E i, j \in 1..Len(mean.partials) :
          mean.partials[i].count # mean.partials[j].count
    /\ FracSum(mean.partials).n * TotalRows
          # TotalSum * FracSum(mean.partials).d * Len(mean.partials)

\* C10: once a loader or reducer of some row group has failed, no
\* total.result() has returned a number: each raised the failure of such a task.
C10_TotalRaisesOnPartitionFailure ==
    (total # 0 /\ ErredPartitionTasks # {})
        => \A i \in 1..Len(calls) :
               calls[i].key = total
                   => /\ calls[i].val.tag = "error"
                      /\ calls[i].val.num \in ErredPartitionTasks
                      /\ tasks[calls[i].val.num].value = calls[i].val

\* total.result() raised a reducer's failure although another row group's
\* reducer finished.
C10_Witness ==
    \E i \in 1..Len(calls), a, b \in 1..Len(counts) :
        /\ calls[i].key = total
        /\ calls[i].val = ErrorVal(counts[a])
        /\ tasks[counts[b]].status = "finished"

====
